---- MODULE Spec2Model ----
(***************************************************************************)
(* Model of vivopaint (src/src/main.rs): the canvas program State::update  *)
(* classifies raw events into Messages, Painter::update applies a Message  *)
(* to the State {cache, positions, drawing}, and State::draw renders the   *)
(* positions through the canvas cache.                                     *)
(***************************************************************************)
EXTENDS Integers, Sequences, FiniteSets, TLC

\* ------------------------------------------------------------------ bounds
\* Most Messages published by the canvas in one run.
MaxHist == 4
\* Most Messages published by the canvas and not yet handled.
MaxQueue == 2

\* ------------------------------------------------------------ input values
\* iced::Point values the host can deliver (x, y).
Points == {<<10, 10>>, <<20, 20>>}
\* Sizes of the canvas bounds passed to draw.
Sizes == {<<800, 600>>, <<1024, 768>>}

\* mouse::Cursor: Available(Point) or Unavailable.
Unavailable == [available |-> FALSE]
Available(p) == [available |-> TRUE, position |-> p]
Cursors == {Unavailable} \cup {Available(p) : p \in Points}

\* event::Event values (one representative for each arm of the matches).
MouseEvents ==
    {[kind |-> "Mouse", ev |-> "ButtonPressed", button |-> b] : b \in {"Left", "Right"}}
    \cup {[kind |-> "Mouse", ev |-> "ButtonReleased", button |-> b] : b \in {"Left", "Right"}}
    \cup {[kind |-> "Mouse", ev |-> "CursorMoved", position |-> p] : p \in Points}
    \cup {[kind |-> "Mouse", ev |-> "CursorLeft"]}
KeyboardEvents ==
    {[kind |-> "Keyboard", ev |-> "KeyPressed", key_code |-> k] : k \in {"Escape", "R", "A"}}
    \cup {[kind |-> "Keyboard", ev |-> "KeyReleased", key_code |-> k] : k \in {"Escape", "R"}}
TouchEvents == {[kind |-> "Touch", ev |-> "FingerPressed"]}
Events == MouseEvents \cup KeyboardEvents \cup TouchEvents

\* enum Message
LeftButtonDownMsg(p) == [type |-> "LeftButtonDown", position |-> p]
MouseDraggedMsg(p) == [type |-> "MouseDragged", position |-> p]
LeftButtonUpMsg == [type |-> "LeftButtonUp"]
ResetMsg == [type |-> "Reset"]
ExitMsg == [type |-> "Exit"]
Message ==
    {LeftButtonDownMsg(p) : p \in Points} \cup {MouseDraggedMsg(p) : p \in Points}
    \cup {LeftButtonUpMsg, ResetMsg, ExitMsg}

\* ------------------------------------------------------------------- state
VARIABLES
    positions,  \* State.positions : Vec<Point>
    drawing,    \* State.drawing : bool
    cache,      \* State.cache : canvas::Cache
    queue,      \* Messages published by State::update, not yet handled
    hist,       \* Messages handled by Painter::update so far, in call order
    pc,         \* "running", "exited" (process::exit) or "panicked" (unwrap)
    exitCode,   \* exit code of the process once it has ended
    ret         \* what the handler run by the last step returned (for a
                \* draw also whether it ran the path-building closure)

vars == <<positions, drawing, cache, queue, hist, pc, exitCode, ret>>

\* canvas::Cache::new(): no geometry stored.
CacheEmpty == [filled |-> FALSE]
CacheFilled(bounds, geometry) == [filled |-> TRUE, bounds |-> bounds, geometry |-> geometry]

NoExitCode == -1
NoRet == [fn |-> "none"]

\* State::new and Painter::new
Init ==
    /\ positions = <<>>
    /\ drawing = FALSE
    /\ cache = CacheEmpty
    /\ queue = <<>>
    /\ hist = <<>>
    /\ pc = "running"
    /\ exitCode = NoExitCode
    /\ ret = NoRet

\* ------------------------------------------------- canvas::Program::update
NoMessage == [type |-> "None"]
Ignored == [status |-> "Ignored", message |-> NoMessage]
Captured(m) == [status |-> "Captured", message |-> m]
Panic == [status |-> "panic", message |-> NoMessage]

\* Variant: the press arm matches every mouse button.
StateUpdate_AnyButton(event, cursor) ==
    IF event.kind = "Mouse" THEN
        IF event.ev = "ButtonPressed" THEN
            IF cursor.available
            THEN Captured(LeftButtonDownMsg(cursor.position))
            ELSE Panic
        ELSE IF event.ev = "CursorMoved" THEN
            Captured(MouseDraggedMsg(event.position))
        ELSE IF event.ev = "ButtonReleased" /\ event.button = "Left" THEN
            Captured(LeftButtonUpMsg)
        ELSE Ignored
    ELSE IF event.kind = "Keyboard" THEN
        IF event.ev = "KeyPressed" THEN
            IF event.key_code = "Escape" THEN Captured(ExitMsg)
            ELSE IF event.key_code = "R" THEN Captured(ResetMsg)
            ELSE Ignored
        ELSE Ignored
    ELSE Ignored

\* Variant: the move arm takes its position from the cursor, as the press
\* arm does.
StateUpdate_MoveReadsCursor(event, cursor) ==
    IF event.kind = "Mouse" THEN
        IF event.ev = "ButtonPressed" /\ event.button = "Left" THEN
            IF cursor.available
            THEN Captured(LeftButtonDownMsg(cursor.position))
            ELSE Panic
        ELSE IF event.ev = "CursorMoved" THEN
            IF cursor.available
            THEN Captured(MouseDraggedMsg(cursor.position))
            ELSE Panic
        ELSE IF event.ev = "ButtonReleased" /\ event.button = "Left" THEN
            Captured(LeftButtonUpMsg)
        ELSE Ignored
    ELSE IF event.kind = "Keyboard" THEN
        IF event.ev = "KeyPressed" THEN
            IF event.key_code = "Escape" THEN Captured(ExitMsg)
            ELSE IF event.key_code = "R" THEN Captured(ResetMsg)
            ELSE Ignored
        ELSE Ignored
    ELSE Ignored

\* The (event::Status, Option<Message>) returned by State::update; Panic when
\* cursor.position().unwrap() is reached with an unavailable cursor.
StateUpdate(event, cursor) ==
    IF event.kind = "Mouse" THEN
        IF event.ev = "ButtonPressed" /\ event.button = "Left" THEN
            IF cursor.available
            THEN Captured(LeftButtonDownMsg(cursor.position))
            ELSE Panic
        ELSE IF event.ev = "CursorMoved" THEN
            Captured(MouseDraggedMsg(event.position))
        ELSE IF event.ev = "ButtonReleased" /\ event.button = "Left" THEN
            Captured(LeftButtonUpMsg)
        ELSE Ignored
    ELSE IF event.kind = "Keyboard" THEN
        IF event.ev = "KeyPressed" THEN
            IF event.key_code = "Escape" THEN Captured(ExitMsg)
            ELSE IF event.key_code = "R" THEN Captured(ResetMsg)
            ELSE Ignored
        ELSE Ignored
    ELSE Ignored

\* The cursor values worth delivering with an event: only the
\* ButtonPressed(Left) arm reads the cursor, every other event is delivered
\* with the unavailable one.
CursorsFor(event) ==
    IF event.kind = "Mouse" /\ event.ev = "ButtonPressed" /\ event.button = "Left"
    THEN Cursors
    ELSE {Unavailable}

\* The host delivers one event to the canvas; a returned Message is published
\* to the application. State::update takes &self: the State is not changed.
Classify ==
    /\ pc = "running"
    /\ \E event \in Events : \E cursor \in CursorsFor(event) :
        LET r == StateUpdate(event, cursor) IN
        IF r = Panic THEN
            /\ pc' = "panicked"
            /\ exitCode' = 101
            /\ ret' = [fn |-> "State::update", status |-> "panic", message |-> NoMessage]
            /\ UNCHANGED queue
        ELSE
            /\ r.status = "Captured" =>
                    Len(queue) < MaxQueue /\ Len(hist) + Len(queue) < MaxHist
            /\ queue' = IF r.status = "Captured" THEN Append(queue, r.message) ELSE queue
            /\ ret' = [fn |-> "State::update", status |-> r.status, message |-> r.message]
            /\ UNCHANGED <<pc, exitCode>>
    /\ UNCHANGED <<positions, drawing, cache, hist>>

\* ---------------------------------------------------------- Painter::update
\* Variant: a press starts a new Stroke from its own point.
LeftButtonDown_StartsNewStroke(position) ==
    /\ positions' = <<position>>
    /\ cache' = CacheEmpty
    /\ drawing' = TRUE
    /\ UNCHANGED <<pc, exitCode>>

\* Variant: a press is ignored while a stroke is active.
LeftButtonDown_IgnoredWhileDrawing(position) ==
    /\ IF drawing
       THEN UNCHANGED <<positions, cache>>
       ELSE /\ positions' = Append(positions, position)
            /\ cache' = CacheEmpty
    /\ drawing' = TRUE
    /\ UNCHANGED <<pc, exitCode>>

\* Message::LeftButtonDown { position }
LeftButtonDown(position) ==
    /\ positions' = Append(positions, position)
    /\ cache' = CacheEmpty
    /\ drawing' = TRUE
    /\ UNCHANGED <<pc, exitCode>>

\* Variant: the point is pushed without looking at the drawing flag.
MouseDragged_Unguarded(position) ==
    /\ positions' = Append(positions, position)
    /\ cache' = CacheEmpty
    /\ UNCHANGED <<drawing, pc, exitCode>>

\* Variant: the point is pushed but the cache is left as it is.
MouseDragged_KeepsCache(position) ==
    /\ IF drawing
       THEN positions' = Append(positions, position)
       ELSE UNCHANGED positions
    /\ UNCHANGED <<cache, drawing, pc, exitCode>>

\* Variant: the cache is cleared outside the test of the drawing flag.
MouseDragged_AlwaysClears(position) ==
    /\ IF drawing
       THEN positions' = Append(positions, position)
       ELSE UNCHANGED positions
    /\ cache' = CacheEmpty
    /\ UNCHANGED <<drawing, pc, exitCode>>

\* Message::MouseDragged { position }
MouseDragged(position) ==
    /\ IF drawing
       THEN /\ positions' = Append(positions, position)
            /\ cache' = CacheEmpty
       ELSE UNCHANGED <<positions, cache>>
    /\ UNCHANGED <<drawing, pc, exitCode>>

\* Variant: the release leaves the drawing flag set.
LeftButtonUp_KeepsDrawing ==
    UNCHANGED <<drawing, positions, cache, pc, exitCode>>

\* Variant: the release also discards the finished stroke.
LeftButtonUp_ClearsStroke ==
    /\ drawing' = FALSE
    /\ positions' = <<>>
    /\ cache' = CacheEmpty
    /\ UNCHANGED <<pc, exitCode>>

\* Variant: the release also clears the cache.
LeftButtonUp_ClearsCache ==
    /\ drawing' = FALSE
    /\ cache' = CacheEmpty
    /\ UNCHANGED <<positions, pc, exitCode>>

\* Message::LeftButtonUp
LeftButtonUp ==
    /\ drawing' = FALSE
    /\ UNCHANGED <<positions, cache, pc, exitCode>>

\* Variant: the reset also ends the active stroke.
Reset_StopsDrawing ==
    /\ positions' = <<>>
    /\ cache' = CacheEmpty
    /\ drawing' = FALSE
    /\ UNCHANGED <<pc, exitCode>>

\* Variant: the reset flips the drawing flag.
Reset_TogglesDrawing ==
    /\ positions' = <<>>
    /\ cache' = CacheEmpty
    /\ drawing' = ~drawing
    /\ UNCHANGED <<pc, exitCode>>

\* Variant: the reset empties the points but leaves the cache as it is.
Reset_KeepsCache ==
    /\ positions' = <<>>
    /\ UNCHANGED <<cache, drawing, pc, exitCode>>

\* Message::Reset
Reset ==
    /\ positions' = <<>>
    /\ cache' = CacheEmpty
    /\ UNCHANGED <<drawing, pc, exitCode>>

\* Variant: the handler returns instead of ending the process.
Exit_Returns ==
    UNCHANGED <<pc, exitCode, positions, cache, drawing>>

\* Message::Exit: std::process::exit(0)
Exit ==
    /\ pc' = "exited"
    /\ exitCode' = 0
    /\ UNCHANGED <<positions, cache, drawing>>

\* The application handles the oldest published Message.
PainterUpdate ==
    /\ pc = "running"
    /\ queue # <<>>
    /\ LET message == Head(queue) IN
        /\ CASE message.type = "LeftButtonDown" -> LeftButtonDown(message.position)
             [] message.type = "MouseDragged" -> MouseDragged(message.position)
             [] message.type = "LeftButtonUp" -> LeftButtonUp
             [] message.type = "Reset" -> Reset
             [] message.type = "Exit" -> Exit
        /\ hist' = Append(hist, message)
        /\ ret' = IF message.type = "Exit"
                  THEN [fn |-> "Painter::update", value |-> "exit"]
                  ELSE [fn |-> "Painter::update", value |-> "Command::none"]
    /\ queue' = Tail(queue)

\* -------------------------------------------------------------- State::draw
\* Variant: the enumeration starts at the second point.
BuildPath_SkipsFirst(ps) ==
    [i \in 1..(Len(ps) - 1) |->
        IF i = 1 THEN [op |-> "move_to", p |-> ps[i + 1]]
                 ELSE [op |-> "line_to", p |-> ps[i + 1]]]

\* builder.move_to for index 0, builder.line_to for every later index.
BuildPath(ps) ==
    [i \in 1..Len(ps) |->
        IF i = 1 THEN [op |-> "move_to", p |-> ps[i]]
                 ELSE [op |-> "line_to", p |-> ps[i]]]

\* Color::from_rgba(1.0, 0.0, 0.0, 0.5) in tenths; width 10.0.
StrokeStyle ==
    [color |-> <<"rgba", 10, 0, 0, 5>>, line_cap |-> "Round", line_join |-> "Round", width |-> 10]

\* Variant: the guard lets a single point through.
DrawClosure_GuardOne(ps) ==
    IF Len(ps) < 1 THEN <<>>
    ELSE << [path |-> BuildPath(ps), stroke |-> StrokeStyle] >>

\* What the closure passed to cache.draw leaves in the frame: the sequence of
\* stroked paths.
DrawClosure(ps) ==
    IF Len(ps) < 2 THEN <<>>
    ELSE << [path |-> BuildPath(ps), stroke |-> StrokeStyle] >>

\* Variant: the stored geometry is never reused.
CacheHit_Never(c, bounds) == FALSE

\* canvas::Cache::draw reuses the stored geometry: the cache is filled, for
\* the same bounds.
CacheHit(c, bounds) == c.filled /\ c.bounds = bounds

\* canvas::Cache::draw: the stored geometry when filled for the same bounds,
\* else the closure's frame, which is stored.
CacheDraw(c, bounds, ps) ==
    IF CacheHit(c, bounds) THEN c
    ELSE CacheFilled(bounds, DrawClosure(ps))

\* Variant: the draw takes the points out of the State.
Draw_TakesPositions ==
    /\ pc = "running"
    /\ \E size \in Sizes :
        /\ cache' = CacheDraw(cache, size, positions)
        /\ ret' = [fn |-> "State::draw", value |-> << cache'.geometry >>,
                   built |-> ~CacheHit(cache, size)]
    /\ positions' = <<>>
    /\ UNCHANGED <<drawing, queue, hist, pc, exitCode>>

\* The host's redraw: State::draw returns vec![path_shape].
Draw ==
    /\ pc = "running"
    /\ \E size \in Sizes :
        /\ cache' = CacheDraw(cache, size, positions)
        /\ ret' = [fn |-> "State::draw", value |-> << cache'.geometry >>,
                   built |-> ~CacheHit(cache, size)]
    /\ UNCHANGED <<positions, drawing, queue, hist, pc, exitCode>>

Next == Classify \/ PainterUpdate \/ Draw

Spec == Init /\ [][Next]_vars

\* ------------------------------------------------------------ step helpers
\* The step is Painter::update handling Message m.
Handled(m) == hist' = Append(hist, m)

Last(h) == h[Len(h)]

ProgramState == <<positions, drawing, cache>>

\* A LeftButtonDown precedes index i of h with no LeftButtonUp in between.
ActiveBefore(h, i) ==
    \E j \in 1..(i - 1) :
        /\ h[j].type = "LeftButtonDown"
        /\ \A k \in (j + 1)..(i - 1) : h[k].type # "LeftButtonUp"

\* h holds stroke-start, stroke-extend and stroke-end intents only.
OnlyStrokeIntents(h) ==
    \A i \in DOMAIN h : h[i].type \in {"LeftButtonDown", "MouseDragged", "LeftButtonUp"}

\* The positions of those of the first n Messages of h whose index is in
\* keep, in the order of h.
RECURSIVE PositionsOf(_, _, _)
PositionsOf(h, n, keep) ==
    IF n = 0 THEN <<>>
    ELSE IF n \in keep THEN Append(PositionsOf(h, n - 1, keep), h[n].position)
    ELSE PositionsOf(h, n - 1, keep)

StartOrExtend(h) ==
    {i \in DOMAIN h : h[i].type \in {"LeftButtonDown", "MouseDragged"}}

StartOrActiveExtend(h) ==
    {i \in DOMAIN h :
        \/ h[i].type = "LeftButtonDown"
        \/ h[i].type = "MouseDragged" /\ ActiveBefore(h, i)}

\* ---------------------------------------------------------------------- C1
\* C1 as stated: after any sequence of start/extend/end intents the Stroke is
\* the concatenation of the positions of all its start and extend intents.
C1_AllPassedPositions ==
    OnlyStrokeIntents(hist) =>
        positions = PositionsOf(hist, Len(hist), StartOrExtend(hist))

\* C1 amended: after any sequence of start/extend/end intents the Stroke is
\* the concatenation, in call order, of the positions of its start intents
\* and of those extend intents that were handled while a stroke was active
\* (a start before them with no end in between); end intents remove nothing.
C1_AcceptedPositions ==
    OnlyStrokeIntents(hist) =>
        positions = PositionsOf(hist, Len(hist), StartOrActiveExtend(hist))

\* A start, an end, an ignored extend and a second start have been handled.
C1_Witness ==
    /\ Len(hist) = 4
    /\ hist[1].type = "LeftButtonDown"
    /\ hist[2].type = "LeftButtonUp"
    /\ hist[3].type = "MouseDragged"
    /\ hist[4].type = "LeftButtonDown"
    /\ positions = <<hist[1].position, hist[4].position>>

\* ---------------------------------------------------------------------- C2
\* C2 as stated: a clear leaves the accumulator Idle with an empty Stroke and
\* an invalidated cache, and an extend handled directly after a clear is
\* ignored.
C2_ClearGoesIdle ==
    [][ /\ Handled(ResetMsg) =>
            drawing' = FALSE /\ positions' = <<>> /\ cache' = CacheEmpty
        /\ \A p \in Points :
            (Handled(MouseDraggedMsg(p)) /\ hist # <<>> /\ Last(hist).type = "Reset")
                => positions' = positions ]_vars

\* C2 amended: a clear in any state leaves the Stroke empty and the cache
\* invalidated and leaves DrawingState as it was; an extend handled directly
\* after a clear is ignored when the state is Idle and appended when Drawing.
C2_ClearKeepsDrawing ==
    [][ /\ Handled(ResetMsg) =>
            drawing' = drawing /\ positions' = <<>> /\ cache' = CacheEmpty
        /\ \A p \in Points :
            (Handled(MouseDraggedMsg(p)) /\ hist # <<>> /\ Last(hist).type = "Reset")
                => /\ positions = <<>>
                   /\ positions' = IF drawing THEN <<p>> ELSE <<>> ]_vars

\* A clear was handled while Drawing and the extend after it was appended.
C2_Witness ==
    /\ Len(hist) >= 3
    /\ hist[Len(hist) - 1].type = "Reset"
    /\ Last(hist).type = "MouseDragged"
    /\ drawing
    /\ positions = <<Last(hist).position>>

\* ---------------------------------------------------------------------- C3
\* C3: whenever the cache holds geometry it is the polyline of the current
\* Stroke, and a draw returns the polyline of the current Stroke.
C3_CacheFresh ==
    /\ cache.filled => cache.geometry = DrawClosure(positions)
    /\ ret.fn = "State::draw" => ret.value = << DrawClosure(positions) >>

\* A draw after three points were pushed returned their polyline.
C3_Witness ==
    /\ ret.fn = "State::draw"
    /\ cache.filled
    /\ Len(positions) = 3
    /\ Len(cache.geometry) = 1

\* ---------------------------------------------------------------------- C4
\* C4: a CursorMoved event is always classified Captured with a MouseDragged
\* Message, classifying it changes none of positions, drawing and cache, and
\* handling a MouseDragged while Idle changes none of them either.
C4_IdleExtendIgnored ==
    [][ /\ \A p \in Points, c \in Cursors :
            StateUpdate([kind |-> "Mouse", ev |-> "CursorMoved", position |-> p], c)
                = Captured(MouseDraggedMsg(p))
        /\ (ret'.fn = "State::update" /\ ret'.message.type = "MouseDragged")
                => /\ ret'.status = "Captured"
                   /\ queue' = Append(queue, ret'.message)
                   /\ UNCHANGED ProgramState
        /\ \A p \in Points :
            (Handled(MouseDraggedMsg(p)) /\ ~drawing)
                => UNCHANGED <<ProgramState, pc>> ]_vars

\* An extend was handled while Idle with a non-empty Stroke whose polyline
\* was in the cache, and the cache still holds it.
C4_Witness ==
    /\ hist # <<>>
    /\ Last(hist).type = "MouseDragged"
    /\ ~drawing
    /\ Len(positions) = 2
    /\ cache.filled
    /\ ret.fn = "Painter::update"

\* ---------------------------------------------------------------------- C5
\* C5: a draw of a Stroke of 0 or 1 points returns an empty geometry, Idle
\* or Drawing.
C5_MinimumVertexGuard ==
    (ret.fn = "State::draw" /\ Len(positions) < 2) => ret.value = << <<>> >>

\* A draw happened while Drawing with a single point in the Stroke.
C5_Witness ==
    /\ ret.fn = "State::draw"
    /\ Len(positions) = 1
    /\ drawing
    /\ ret.value = << <<>> >>

\* ---------------------------------------------------------------------- C6
\* C6: a draw of a Stroke of n >= 2 points returns one polyline of n vertices,
\* the points of the Stroke in insertion order, a move_to at the first and a
\* line_to at every later one.
C6_PolylineIsStroke ==
    (ret.fn = "State::draw" /\ Len(positions) >= 2) =>
        /\ Len(ret.value) = 1
        /\ Len(ret.value[1]) = 1
        /\ LET path == ret.value[1][1].path IN
            /\ Len(path) = Len(positions)
            /\ \A i \in 1..Len(positions) :
                /\ path[i].p = positions[i]
                /\ path[i].op = IF i = 1 THEN "move_to" ELSE "line_to"

\* start, extend, extend, end were handled and the draw returned a polyline
\* of 3 vertices.
C6_Witness ==
    /\ ret.fn = "State::draw"
    /\ hist = <<LeftButtonDownMsg(<<10, 10>>), MouseDraggedMsg(<<20, 20>>),
                MouseDraggedMsg(<<10, 10>>), LeftButtonUpMsg>>
    /\ Len(ret.value[1][1].path) = 3

\* ---------------------------------------------------------------------- C7
\* C7: a clear always leaves the Stroke empty and the process running; a
\* clear handled directly after a clear finds the Stroke empty and leaves
\* positions, drawing and the (invalidated) cache as the first left them.
C7_ClearIdempotent ==
    [][ Handled(ResetMsg) =>
            /\ positions' = <<>>
            /\ pc' = "running"
            /\ (hist # <<>> /\ Last(hist).type = "Reset") =>
                    /\ positions = <<>>
                    /\ cache' = CacheEmpty
                    /\ drawing' = drawing ]_vars

\* Two clears in a row were handled after a point had been pushed.
C7_Witness ==
    /\ Len(hist) >= 3
    /\ hist[Len(hist) - 1].type = "Reset"
    /\ Last(hist).type = "Reset"
    /\ positions = <<>>

\* ---------------------------------------------------------------------- C8
\* C8: handling a quit ends the process with exit code 0; an Exit is the last
\* Message ever handled, and once the process has exited nothing changes.
C8_QuitTerminates ==
    /\ [](\A i \in DOMAIN hist :
            hist[i].type = "Exit" => i = Len(hist) /\ pc = "exited" /\ exitCode = 0)
    /\ [][pc = "exited" => UNCHANGED vars]_vars

\* The process exited while Drawing with a published Message left unhandled.
C8_Witness ==
    /\ pc = "exited"
    /\ exitCode = 0
    /\ Last(hist).type = "Exit"
    /\ queue # <<>>
    /\ drawing

\* ---------------------------------------------------------------------- C9
\* C9: a stroke-end leaves DrawingState false and changes neither the Stroke
\* nor the cache; handled while Idle it changes nothing at all.
C9_EndOnlyStopsDrawing ==
    [][ Handled(LeftButtonUpMsg) =>
            /\ drawing' = FALSE
            /\ UNCHANGED <<positions, cache, pc, exitCode>>
            /\ ~drawing => UNCHANGED ProgramState ]_vars

\* A stroke-end was handled while the cache held the polyline of the Stroke.
C9_Witness ==
    /\ hist # <<>>
    /\ Last(hist).type = "LeftButtonUp"
    /\ ret.fn = "Painter::update"
    /\ cache.filled
    /\ Len(positions) >= 2

\* --------------------------------------------------------------------- C10
\* C10: DrawingState and the Stroke start false and empty, and DrawingState is
\* true exactly when a stroke-start has been handled with no stroke-end
\* handled after it.
C10_DrawingBetweenStartAndEnd ==
    /\ hist = <<>> => (~drawing /\ positions = <<>>)
    /\ drawing <=> ActiveBefore(hist, Len(hist) + 1)

\* Drawing again: an end, then a clear, then a new start were handled.
C10_Witness ==
    /\ drawing
    /\ Len(hist) >= 3
    /\ hist[Len(hist) - 1].type = "Reset"
    /\ Last(hist).type = "LeftButtonDown"
    /\ \E i \in DOMAIN hist : hist[i].type = "LeftButtonUp"

\* --------------------------------------------------------------------- C11
LeftPress == [kind |-> "Mouse", ev |-> "ButtonPressed", button |-> "Left"]
LeftRelease == [kind |-> "Mouse", ev |-> "ButtonReleased", button |-> "Left"]
KeyPress(k) == [kind |-> "Keyboard", ev |-> "KeyPressed", key_code |-> k]
RecognizedEvents ==
    {LeftPress, LeftRelease, KeyPress("Escape"), KeyPress("R")}
    \cup {e \in MouseEvents : e.ev = "CursorMoved"}

C12_DrawReadsOnly ==
    [][ ret'.fn = "State::draw" =>
            /\ UNCHANGED <<positions, drawing, queue, hist, pc>>
            /\ cache' # cache => cache'.filled ]_vars

\* A draw filled the cache while Drawing with two points in the Stroke.
C12_Witness ==
    /\ ret.fn = "State::draw"
    /\ ret.built
    /\ drawing
    /\ Len(positions) = 2
    /\ cache.filled

\* --------------------------------------------------------------------- C13
\* C13: State::update panics exactly on a left press with no cursor position
\* (never on a cursor move); the panicking step publishes no Message and
\* changes none of positions, drawing, cache, and nothing is handled after it.
C13_PressWithoutCursorPanics ==
    /\ [](\A e \in Events, c \in Cursors :
            StateUpdate(e, c) = Panic <=> (e = LeftPress /\ ~c.available))
    /\ [][
          /\ pc' = "panicked" =>
                /\ ret'.fn = "State::update"
                /\ ret'.message = NoMessage
                /\ UNCHANGED <<ProgramState, queue, hist>>
          /\ pc = "panicked" => UNCHANGED vars
       ]_vars

\* The classifier panicked while Drawing, a point in the Stroke and a
\* published Message left unhandled.
C13_Witness ==
    /\ pc = "panicked"
    /\ ret.status = "panic"
    /\ drawing
    /\ positions # <<>>
    /\ queue # <<>>

\* --------------------------------------------------------------------- C14
\* C14 as stated: a draw made while the cache holds geometry (no invalidation
\* since it was filled) does not run the closure and returns the stored
\* geometry.
C14_NeverRebuilds ==
    [][ (ret'.fn = "State::draw" /\ cache.filled) =>
            /\ ~ret'.built
            /\ ret'.value = << cache.geometry >> ]_vars

\* C14 amended: a draw made while the cache holds geometry runs the closure
\* exactly when its bounds differ from the bounds the geometry was stored
\* for; with the same bounds the cache is left as it is; either way the draw
\* returns the same path geometry as the stored one.
C14_RebuildsOnlyOnNewBounds ==
    [][ (ret'.fn = "State::draw" /\ cache.filled) =>
            /\ ret'.built <=> cache'.bounds # cache.bounds
            /\ ~ret'.built => cache' = cache
            /\ ret'.value = << cache.geometry >> ]_vars

\* A draw reused the stored polyline of a two-point Stroke.
C14_Witness ==
    /\ ret.fn = "State::draw"
    /\ ~ret.built
    /\ cache.filled
    /\ Len(positions) = 2
    /\ ret.value = << cache.geometry >>

\* --------------------------------------------------------------------- C15
\* C15: every step leaves the Stroke unchanged, or appends exactly one point
\* at its end (handling a start or an extend, with DrawingState true after
\* the step), or empties a non-empty Stroke (handling a clear, and no other
\* Message).
C15_AppendOrClearOnly ==
    [][ \/ positions' = positions
        \/ /\ Len(positions') = Len(positions) + 1
           /\ SubSeq(positions', 1, Len(positions)) = positions
           /\ hist' # hist
           /\ Last(hist').type \in {"LeftButtonDown", "MouseDragged"}
           /\ Last(positions') = Last(hist').position
           /\ drawing'
        \/ /\ positions' = <<>>
           /\ Handled(ResetMsg) ]_vars

\* A Stroke of two points was emptied by a clear, a new point was pushed
\* after it.
C15_Witness ==
    /\ Len(hist) = 4
    /\ hist[1].type = "LeftButtonDown"
    /\ hist[2].type = "MouseDragged"
    /\ hist[3].type = "Reset"
    /\ hist[4].type = "MouseDragged"
    /\ Len(positions) = 1

\* --------------------------------------------------------------------- C16
\* The Messages handled so far include no clear.
NoReset(h) == \A i \in DOMAIN h : h[i].type # "Reset"

\* The Stroke as it was before Message i of h was handled, h without clear.
StrokeBefore(h, i) == PositionsOf(h, i - 1, StartOrActiveExtend(h))

\* Message i of h is a start handled after an end, with points of earlier
\* strokes in the Stroke.
StartAfterEnd(h, i) ==
    /\ h[i].type = "LeftButtonDown"
    /\ \E j \in 1..(i - 1) : h[j].type = "LeftButtonUp"
    /\ StrokeBefore(h, i) # <<>>

\* The path holds the points earlier in order, then a line_to p.
JoinsTo(path, earlier, p) ==
    /\ \A n \in 1..Len(earlier) : path[n].p = earlier[n]
    /\ path[Len(earlier) + 1] = [op |-> "line_to", p |-> p]

\* C16: a start(p) handled when the Stroke is not empty appends p after the
\* points already there; and, with no clear handled, a draw after a start(p)
\* that followed an end returns a polyline holding all earlier points and a
\* line_to p right after the last point of the earlier stroke.
C16_StrokesNotSegmented ==
    /\ [][ \A p \in Points :
            Handled(LeftButtonDownMsg(p)) => positions' = Append(positions, p) ]_vars
    /\ []((ret.fn = "State::draw" /\ NoReset(hist)) =>
            \A i \in DOMAIN hist :
                StartAfterEnd(hist, i) =>
                    JoinsTo(ret.value[1][1].path, StrokeBefore(hist, i), hist[i].position))

\* start, extend, end, start were handled and the draw joined the second
\* start to the earlier stroke.
C16_Witness ==
    /\ ret.fn = "State::draw"
    /\ Len(hist) = 4
    /\ hist[1].type = "LeftButtonDown"
    /\ hist[2].type = "MouseDragged"
    /\ hist[3].type = "LeftButtonUp"
    /\ hist[4].type = "LeftButtonDown"
    /\ Len(ret.value[1][1].path) = 3

\* --------------------------------------------------------------------- C17
\* C17: a start(p) handled while already Drawing appends p to the Stroke,
\* invalidates the cache and leaves DrawingState true, as one handled while
\* Idle does.
C17_StartWhileDrawing ==
    [][ \A p \in Points :
        Handled(LeftButtonDownMsg(p)) =>
            /\ positions' = Append(positions, p)
            /\ cache' = CacheEmpty
            /\ drawing'
            /\ pc' = "running" ]_vars

\* Two starts in a row were handled with no end between them.
C17_Witness ==
    /\ Len(hist) >= 2
    /\ hist[Len(hist) - 1].type = "LeftButtonDown"
    /\ Last(hist).type = "LeftButtonDown"
    /\ ret.fn = "Painter::update"
    /\ drawing
    /\ Len(positions) >= 2
    /\ ~cache.filled

\* --------------------------------------------------------------------- C18
\* C18: handling a clear leaves DrawingState as it was, and every step that
\* changes DrawingState handles a start (to true) or an end (to false).
C18_ClearLeavesFlag ==
    [][ /\ Handled(ResetMsg) => drawing' = drawing
        /\ drawing' # drawing =>
            /\ hist' # hist
            /\ Last(hist').type = IF drawing' THEN "LeftButtonDown" ELSE "LeftButtonUp" ]_vars

\* A clear was handled while Drawing, right after an extend, and the state is
\* still Drawing.
C18_Witness ==
    /\ Len(hist) >= 3
    /\ hist[Len(hist) - 1].type = "MouseDragged"
    /\ Last(hist).type = "Reset"
    /\ ret.fn = "Painter::update"
    /\ drawing
    /\ positions = <<>>

====
